---- MODULE Spec2Model ----
(***************************************************************************)
(* A model of exa's fs::File (src/src/fs/file.rs): construction, name and  *)
(* extension parsing, symlink resolution, and the derived queries.         *)
(*                                                                         *)
(* file.rs imports std::os::windows::fs::MetadataExt (line 6) without any  *)
(* cfg gate, so the only target the file builds for is Windows.  Paths are *)
(* therefore modelled with std::path's Windows rules: both `/` and `\` are *)
(* separators, MAIN_SEPARATOR is `\`, a disk prefix is a letter followed   *)
(* by `:`, and a path is absolute only when it has a prefix and a root.    *)
(*                                                                         *)
(* A string is a sequence of one-character strings.                        *)
(***************************************************************************)
EXTENDS Integers, Sequences, FiniteSets, TLC

VARIABLES
    fs,      \* the filesystem: what each changing location holds
    args,    \* the arguments of the last File::new
    file,    \* the result of the last File::new
    op,      \* the last operation
    io,      \* the filesystem calls the last operation on the File made
    target,  \* the FileTarget of the last link_target
    query,   \* the last derived query on the File and its result
    pin,     \* a path given to the pure path functions
    pout     \* their results on it

vars == << fs, args, file, op, io, target, query, pin, pout >>

\* ------------------------------------------------------------------------
\* Bounds of the model
\* ------------------------------------------------------------------------

\* Longest path string drawn as an input of the pure path functions.
MaxLen == 4

\* Number of symbolic links one stat may follow before the OS gives up.
MaxHops == 3

\* Deepest recursion of points_to_directory the model unfolds.
MaxDepth == 3

\* ------------------------------------------------------------------------
\* Characters and strings
\* ------------------------------------------------------------------------

UpperChars ==
    << "A", "B", "C", "D", "E", "F", "G", "H", "I", "J", "K", "L", "M",
       "N", "O", "P", "Q", "R", "S", "T", "U", "V", "W", "X", "Y", "Z" >>

LowerChars ==
    << "a", "b", "c", "d", "e", "f", "g", "h", "i", "j", "k", "l", "m",
       "n", "o", "p", "q", "r", "s", "t", "u", "v", "w", "x", "y", "z" >>

IsUpper(c) == \E i \in DOMAIN UpperChars : UpperChars[i] = c

IsAlpha(c) == IsUpper(c) \/ \E i \in DOMAIN LowerChars : LowerChars[i] = c

\* u8::to_ascii_lowercase
CharToAsciiLowercase(c) ==
    IF IsUpper(c)
    THEN LowerChars[CHOOSE i \in DOMAIN UpperChars : UpperChars[i] = c]
    ELSE c

\* str::to_ascii_lowercase
to_ascii_lowercase(s) == [i \in DOMAIN s |-> CharToAsciiLowercase(s[i])]

\* Option<T>: None, or Some(v).  `val` of None is a filler never read.
None == [some |-> FALSE, val |-> << >>]

Some(v) == [some |-> TRUE, val |-> v]

\* str::rfind(c): the greatest index holding c, 0 when there is none.
rfind(s, c) ==
    IF \E i \in DOMAIN s : s[i] = c
    THEN CHOOSE i \in DOMAIN s : s[i] = c /\ \A j \in DOMAIN s : s[j] = c => j <= i
    ELSE 0

\* ------------------------------------------------------------------------
\* std::path on Windows
\* ------------------------------------------------------------------------

\* is_sep_byte: both separators are accepted.
Sep == {"/", "\\"}

\* MAIN_SEPARATOR_STR
MAIN_SEP == "\\"

\* Length of a disk prefix (`C:`), 0 when the path has none.  UNC and
\* verbatim prefixes start with two separators; no input of the model does.
PrefixLen(s) == IF Len(s) >= 2 /\ IsAlpha(s[1]) /\ s[2] = ":" THEN 2 ELSE 0

\* Path::has_root (a disk prefix has no implicit root).
HasRoot(s) == Len(s) > PrefixLen(s) /\ s[PrefixLen(s) + 1] \in Sep

\* Path::is_absolute on Windows: a prefix and a root.
IsAbsolute(s) == PrefixLen(s) > 0 /\ HasRoot(s)

\* Components::include_cur_dir: a leading `.` is kept only when the path has
\* no root and the `.` is the whole first piece after the prefix.
IncludeCurDir(s) ==
    LET p == PrefixLen(s) IN
    /\ ~HasRoot(s)
    /\ Len(s) > p
    /\ s[p + 1] = "."
    /\ (Len(s) = p + 1 \/ s[p + 2] \in Sep)

\* The end of the piece that starts at i (the index before the next
\* separator, or the end of the string).
RECURSIVE PieceEnd(_, _)
PieceEnd(s, i) ==
    IF i > Len(s) \/ s[i] \in Sep THEN i - 1 ELSE PieceEnd(s, i + 1)

\* parse_single_component for the piece s[i..e]; `first` tells whether the
\* piece may be the leading CurDir.
PieceComponent(s, i, e, first) ==
    LET str == SubSeq(s, i, e) IN
    IF str = << "." >>
    THEN IF first /\ IncludeCurDir(s)
         THEN << [kind |-> "CurDir", str |-> str, end |-> e] >>
         ELSE << >>
    ELSE IF str = << ".", "." >>
    THEN << [kind |-> "ParentDir", str |-> str, end |-> e] >>
    ELSE << [kind |-> "Normal", str |-> str, end |-> e] >>

\* The components of the body of s from index i on.
RECURSIVE BodyComponents(_, _)
BodyComponents(s, i) ==
    IF i > Len(s) THEN << >>
    ELSE IF s[i] \in Sep THEN BodyComponents(s, i + 1)
    ELSE LET e == PieceEnd(s, i) IN
         PieceComponent(s, i, e, i = PrefixLen(s) + 1) \o BodyComponents(s, e + 1)

\* Path::components, each with Component::as_os_str as `str` and the index
\* of its last character as `end`.  RootDir's as_os_str is MAIN_SEPARATOR_STR
\* whichever separator the path was written with.
Components(s) ==
    LET p == PrefixLen(s) IN
    (IF p > 0 THEN << [kind |-> "Prefix", str |-> SubSeq(s, 1, p), end |-> p] >>
     ELSE << >>)
    \o (IF HasRoot(s)
        THEN << [kind |-> "RootDir", str |-> << MAIN_SEP >>, end |-> p + 1] >>
        ELSE << >>)
    \o BodyComponents(s, p + 1)

\* Path::file_name: the last component when it is a normal one.
file_name(s) ==
    LET cs == Components(s) IN
    IF cs # << >> /\ cs[Len(cs)].kind = "Normal"
    THEN Some(cs[Len(cs)].str)
    ELSE None

\* Path::parent: the path without its last component; None when the path
\* ends in a root or a prefix, or is empty.
parent(s) ==
    LET cs == Components(s)
        n  == Len(cs)
    IN IF n > 0 /\ cs[n].kind \in {"Normal", "CurDir", "ParentDir"}
       THEN Some(SubSeq(s, 1, IF n = 1 THEN 0 ELSE cs[n - 1].end))
       ELSE None

\* Path::join, that is PathBuf::push on a copy.
join(base, p) ==
    LET need_sep ==
            /\ Len(base) > 0
            /\ base[Len(base)] \notin Sep
            /\ ~(PrefixLen(base) > 0 /\ PrefixLen(base) = Len(base))
    IN IF IsAbsolute(p) \/ PrefixLen(p) > 0 THEN p
       ELSE IF HasRoot(p) THEN SubSeq(base, 1, PrefixLen(base)) \o p
       ELSE IF need_sep THEN base \o << MAIN_SEP >> \o p
       ELSE base \o p

\* ------------------------------------------------------------------------
\* File::filename and File::ext
\* ------------------------------------------------------------------------

\* File::filename: the last component, or the displayed path when the path
\* has no component at all.
filename(path) ==
    LET cs == Components(path) IN
    IF cs # << >> THEN cs[Len(cs)].str ELSE path

\* str::find(c): the least index holding c, 0 when there is none.
find(s, c) ==
    IF \E i \in DOMAIN s : s[i] = c
    THEN CHOOSE i \in DOMAIN s : s[i] = c /\ \A j \in DOMAIN s : s[j] = c => i <= j
    ELSE 0

\* File::ext cutting at the first dot instead of the last.
ext_first_dot(path) ==
    LET f == file_name(path) IN
    IF ~f.some THEN None
    ELSE LET name == f.val
             p    == find(name, ".")
         IN IF p = 0 THEN None
            ELSE Some(to_ascii_lowercase(SubSeq(name, p + 1, Len(name))))

\* File::ext: the lowercased characters after the last dot of the path's
\* file_name; None when there is no file_name or no dot.
ext(path) ==
    LET f == file_name(path) IN
    IF ~f.some THEN None
    ELSE LET name == f.val
             p    == rfind(name, ".")
         IN IF p = 0 THEN None
            ELSE Some(to_ascii_lowercase(SubSeq(name, p + 1, Len(name))))

\* ------------------------------------------------------------------------
\* The filesystem
\* ------------------------------------------------------------------------

\* A location is the sequence of names leading to it from the root of the
\* drive; a name is a string.  Names are compared exactly (every name of the
\* model is written in one case only).
NameA == << "a" >>

NameB == << "b" >>

NameC == << "c" >>

NameCD == << "c", ".", "D" >>

NameLink == << "l", "i", "n", "k" >>

NameW == << "w" >>

LocA == << NameA >>

LocAB == << NameA, NameB >>

LocABC == << NameA, NameB, NameC >>

LocABLink == << NameA, NameB, NameLink >>

LocACD == << NameA, NameCD >>

LocALink == << NameA, NameLink >>

LocW == << NameW >>

\* The working directory of the process: `\w`, a directory link to `\a`.
Cwd == LocW

Absent == [kind |-> "absent", dest |-> << >>]

DirNode == [kind |-> "dir", dest |-> << >>]

FileNode == [kind |-> "file", dest |-> << >>]

LinkNode(d) == [kind |-> "symlink", dest |-> d]

\* The raw destinations a link of the model may store.
Dests ==
    { << "c" >>,                                        \* c
      << "l", "i", "n", "k" >>,                         \* link
      << "/", "a", "/", "b", "/", "c" >>,               \* /a/b/c
      << "C", ":", "/", "a", "/", "b", "/", "c" >>,     \* C:/a/b/c
      << ".", ".", "/", "c", ".", "D" >>,               \* ../c.D
      << ".", "." >> }                                  \* ..

\* The raw destinations of \a\link: itself, and \a\b\link.
DestsOfALink == { NameLink, << "b", "/", "l", "i", "n", "k" >> }

\* What each location that changes may hold: \a\b\c anything but a link,
\* \a\b\link a link to any destination, \a\link a link or nothing.
NodesAt(loc) ==
    IF loc = LocABC THEN {Absent, DirNode, FileNode}
    ELSE IF loc = LocABLink THEN {LinkNode(d) : d \in Dests}
    ELSE {Absent} \cup {LinkNode(d) : d \in DestsOfALink}

MutLocs == {LocABC, LocABLink, LocALink}

FsStates == {F \in [MutLocs -> UNION {NodesAt(l) : l \in MutLocs}] :
                \A l \in MutLocs : F[l] \in NodesAt(l)}

\* The node at a location: the root, \a and \a\b are directories, \a\c.D is
\* a regular file, \w is a directory link to a, everything unlisted is absent.
NodeAt(F, loc) ==
    IF loc \in MutLocs THEN F[loc]
    ELSE IF loc \in {<< >>, LocA, LocAB} THEN DirNode
    ELSE IF loc = LocACD THEN FileNode
    ELSE IF loc = LocW THEN LinkNode(NameA)
    ELSE Absent

\* The location a path names, resolved lexically from directory `base`
\* (`..` drops a name, `.` is skipped, a root restarts at the drive's root).
RECURSIVE NormFrom(_, _, _)
NormFrom(cs, i, acc) ==
    IF i > Len(cs) THEN acc
    ELSE IF cs[i].kind = "Normal" THEN NormFrom(cs, i + 1, Append(acc, cs[i].str))
    ELSE IF cs[i].kind = "ParentDir"
    THEN NormFrom(cs, i + 1, IF acc = << >> THEN acc ELSE SubSeq(acc, 1, Len(acc) - 1))
    ELSE NormFrom(cs, i + 1, acc)

Locate(s, base) == NormFrom(Components(s), 1, IF HasRoot(s) THEN << >> ELSE base)

NoLoc == [ok |-> FALSE, loc |-> << >>]

\* Walk the names of `loc` from the root, following every link met on the
\* way and, with `follow`, the last one too.  A link's destination is
\* resolved from the directory holding the link; after MaxHops links the
\* walk fails, as it does on a missing name or a non-directory on the way.
RECURSIVE Walk(_, _, _, _, _)
Walk(F, loc, i, follow, hops) ==
    IF i > Len(loc) THEN [ok |-> TRUE, loc |-> loc]
    ELSE LET here == SubSeq(loc, 1, i)
             node == NodeAt(F, here)
         IN IF node.kind = "absent" THEN NoLoc
            ELSE IF node.kind = "symlink" /\ (i < Len(loc) \/ follow)
            THEN IF hops = 0 THEN NoLoc
                 ELSE Walk(F,
                           Locate(node.dest, SubSeq(loc, 1, i - 1))
                               \o SubSeq(loc, i + 1, Len(loc)),
                           1, follow, hops - 1)
            ELSE IF i < Len(loc)
            THEN IF node.kind = "dir" THEN Walk(F, loc, i + 1, follow, hops)
                 ELSE NoLoc
            ELSE [ok |-> TRUE, loc |-> loc]

\* The node a path string reaches from the working directory.
Lookup(F, s, follow) ==
    IF s = << >> THEN NoLoc ELSE Walk(F, Locate(s, Cwd), 1, follow, MaxHops)

\* ------------------------------------------------------------------------
\* Timestamps
\* ------------------------------------------------------------------------

\* 64-bit quantities exceed the integers of the checker, so they are kept in
\* limbs.  An NT time (u64, 100 ns ticks since 1601) is [hi, lo, ticks] with
\* value (hi * SecBase + lo) * TicksPerSecond + ticks; a count of seconds is
\* sign and magnitude, [neg, hi, lo] with magnitude hi * SecBase + lo.
SecBase == 1000 * 1000

\* 1000_000_0 of nt_to_unix_epoch
TicksPerSecond == 10000000

\* 11644473600 of nt_to_unix_epoch, in limbs.
EpochOffset == [hi |-> 11644, lo |-> 473600]

\* 2^63 and 2^64 in limbs.
TwoTo63 == [hi |-> 922337, lo |-> 203685, ticks |-> 4775808]

TwoTo64 == [hi |-> 1844674, lo |-> 407370, ticks |-> 9551616]

NtLess(x, y) ==
    \/ x.hi < y.hi
    \/ x.hi = y.hi /\ x.lo < y.lo
    \/ x.hi = y.hi /\ x.lo = y.lo /\ x.ticks < y.ticks

\* x - y for NT values x >= y.
NtMinus(x, y) ==
    LET t  == x.ticks - y.ticks
        b1 == IF t < 0 THEN 1 ELSE 0
        l  == x.lo - y.lo - b1
        b2 == IF l < 0 THEN 1 ELSE 0
    IN [hi    |-> x.hi - y.hi - b2,
        lo    |-> l + b2 * SecBase,
        ticks |-> t + b1 * TicksPerSecond]

\* Magnitudes of seconds: sum, order and difference.
SecPlus(x, y) ==
    LET l == x.lo + y.lo IN
    [hi |-> x.hi + y.hi + (l \div SecBase), lo |-> l % SecBase]

SecLess(x, y) == x.hi < y.hi \/ (x.hi = y.hi /\ x.lo < y.lo)

SecMinus(x, y) ==
    LET l == x.lo - y.lo
        b == IF l < 0 THEN 1 ELSE 0
    IN [hi |-> x.hi - y.hi - b, lo |-> l + b * SecBase]

Signed(neg, m) == [neg |-> neg /\ (m.hi # 0 \/ m.lo # 0), hi |-> m.hi, lo |-> m.lo]

\* `nt as i64`: sign and magnitude of the two's complement reading.
AsI64(nt) ==
    IF NtLess(nt, TwoTo63) THEN [neg |-> FALSE, mag |-> nt]
    ELSE [neg |-> TRUE, mag |-> NtMinus(TwoTo64, nt)]

\* nt_to_unix_epoch: Rust's `/` and `%` on i64 truncate toward zero, so a
\* negative nt gives a negative quotient and a negative remainder.
nt_to_unix_epoch(nt) ==
    LET v    == AsI64(nt)
        q    == [hi |-> v.mag.hi, lo |-> v.mag.lo]
        nano == v.mag.ticks * 100
    IN [seconds |->
            IF v.neg THEN Signed(TRUE, SecPlus(q, EpochOffset))
            ELSE IF SecLess(q, EpochOffset) THEN Signed(TRUE, SecMinus(EpochOffset, q))
            ELSE Signed(FALSE, SecMinus(q, EpochOffset)),
        nanoseconds |-> IF v.neg THEN 0 - nano ELSE nano]

Nt(h, l, t) == [hi |-> h, lo |-> l, ticks |-> t]

\* NT times the model draws: 0, one tick, the last tick of the first second,
\* the Unix epoch, one tick before it, two dates of this century, 2^63 - 1,
\* 2^63 and 2^64 - 1.
NtInputs ==
    { Nt(0, 0, 0), Nt(0, 0, 1), Nt(0, 0, 9999999),
      Nt(11644, 473600, 0), Nt(11644, 473599, 9999999),
      Nt(13200, 0, 1234567), Nt(13370, 123456, 7654321),
      Nt(922337, 203685, 4775807), Nt(922337, 203685, 4775808),
      Nt(1844674, 407370, 9551615) }

\* ------------------------------------------------------------------------
\* Metadata
\* ------------------------------------------------------------------------

\* What the filesystem records for each location besides the node itself.
FileSizeAt(loc) == Len(loc) * 100 + Len(loc[Len(loc)])

CreationTimeAt(loc) == Nt(13200, Len(loc), 1234567)

LastWriteTimeAt(loc) == Nt(13370, 123456 + Len(loc[Len(loc)]), 7654321)

\* fs::Metadata of the node at a location.
MetadataOf(F, loc) ==
    LET node == NodeAt(F, loc) IN
    [file_type       |-> node.kind,
     len             |-> IF node.kind = "file" THEN FileSizeAt(loc) ELSE 0,
     creation_time   |-> IF loc = << >> THEN Nt(0, 0, 0) ELSE CreationTimeAt(loc),
     last_write_time |-> IF loc = << >> THEN Nt(0, 0, 0) ELSE LastWriteTimeAt(loc)]

NoMetadata ==
    [file_type |-> "absent", len |-> 0,
     creation_time |-> Nt(0, 0, 0), last_write_time |-> Nt(0, 0, 0)]

\* io::Result<T>
IoOk(v) == [ok |-> TRUE, val |-> v, err |-> "none"]

IoErr(e, filler) == [ok |-> FALSE, val |-> filler, err |-> e]

\* The metadata of the node a lookup reached, or the lookup's failure.
StatResult(F, r) ==
    IF r.ok THEN IoOk(MetadataOf(F, r.loc)) ELSE IoErr("NotFound", NoMetadata)

\* fs::symlink_metadata: stat without following a final link.
symlink_metadata(F, path) == StatResult(F, Lookup(F, path, FALSE))

\* fs::metadata: stat following links.
metadata(F, path) == StatResult(F, Lookup(F, path, TRUE))

\* The destination stored in the node a lookup reached, when it is a link.
ReadLinkResult(r, node) ==
    IF ~r.ok THEN IoErr("NotFound", << >>)
    ELSE IF node.kind # "symlink" THEN IoErr("NotALink", << >>)
    ELSE IoOk(node.dest)

ReadLinkAt(F, r) == ReadLinkResult(r, NodeAt(F, r.loc))

\* fs::read_link: the raw destination stored in the link.
read_link(F, path) == ReadLinkAt(F, Lookup(F, path, FALSE))

\* ------------------------------------------------------------------------
\* File
\* ------------------------------------------------------------------------

\* fs::dir::Dir, reduced to the path it was read from.
Dir(path) == [path |-> path]

\* Dir::join: the directory's path joined with a child.
DirJoin(dir, child) == join(dir.path, child)

NoFile ==
    [name |-> << >>, ext |-> None, path |-> << >>,
     metadata |-> NoMetadata, parent_dir |-> None]

\* File::new: name from the given filename or else from the path, extension
\* from the path, metadata from one symlink_metadata call; the error of that
\* call is the only failure.
NewResult(path, parent_dir, name, e, md) ==
    IF ~md.ok THEN IoErr(md.err, NoFile)
    ELSE IoOk([path       |-> path,
               parent_dir |-> parent_dir,
               metadata   |-> md.val,
               ext        |-> e,
               name       |-> name])

new(F, path, parent_dir, fname) ==
    NewResult(path, parent_dir,
              IF fname.some THEN fname.val ELSE filename(path),
              ext(path),
              symlink_metadata(F, path))

\* The filesystem calls File::new makes, in order.
NewIo(F, path) ==
    << [call |-> "symlink_metadata", path |-> path,
        ok |-> symlink_metadata(F, path).ok] >>

\* is_directory asking the filesystem again instead of the cached metadata.
is_directory_restat(f) ==
    symlink_metadata(fs, f.path).ok
        /\ symlink_metadata(fs, f.path).val.file_type = "dir"

is_directory(f) == f.metadata.file_type = "dir"

is_file(f) == f.metadata.file_type = "file"

is_link(f) == f.metadata.file_type = "symlink"

is_executable_file(f) == is_file(f) /\ f.ext = Some(<< "e", "x", "e" >>)

is_pipe(f) == FALSE

is_char_device(f) == FALSE

is_block_device(f) == FALSE

is_socket(f) == FALSE

\* reorient_target_path leaving a relative destination as it is, to be
\* resolved from the working directory.
reorient_target_path_cwd(f, path) == path

\* File::reorient_target_path
reorient_target_path(f, path) ==
    IF IsAbsolute(path) THEN path
    ELSE IF f.parent_dir.some THEN DirJoin(f.parent_dir.val, path)
    ELSE IF parent(f.path).some THEN join(parent(f.path).val, path)
    ELSE join(f.path, path)

\* FileTarget: Ok(File), Broken(PathBuf) or Err(IOError).
TargetOk(f) == [tag |-> "Ok", file |-> f, path |-> << >>, err |-> "none"]

TargetBroken(p) == [tag |-> "Broken", file |-> NoFile, path |-> p, err |-> "none"]

TargetErr(e) == [tag |-> "Err", file |-> NoFile, path |-> << >>, err |-> e]

NoTarget == [tag |-> "unset", file |-> NoFile, path |-> << >>, err |-> "none"]

\* File::link_target, once the link is read: the File of the target from
\* the raw destination `path` and the result `md` of the stat.
TargetOf(path, md) ==
    IF md.ok
    THEN TargetOk([parent_dir |-> None,
                   path       |-> path,
                   ext        |-> ext(path),
                   metadata   |-> md.val,
                   name       |-> filename(path)])
    ELSE TargetBroken(path)

\* File::link_target building the target's File from the reoriented path.
FollowLink_reoriented(F, f, rl) ==
    IF ~rl.ok THEN TargetErr(rl.err)
    ELSE TargetOf(reorient_target_path(f, rl.val),
                  metadata(F, reorient_target_path(f, rl.val)))

\* File::link_target reporting a link it cannot read as broken.
FollowLink_unreadable_broken(F, f, rl) ==
    IF ~rl.ok THEN TargetBroken(f.path)
    ELSE TargetOf(rl.val, metadata(F, reorient_target_path(f, rl.val)))

\* File::link_target with symlink_metadata, which does not follow links.
FollowLink_nofollow(F, f, rl) ==
    IF ~rl.ok THEN TargetErr(rl.err)
    ELSE TargetOf(rl.val, symlink_metadata(F, reorient_target_path(f, rl.val)))

\* File::link_target, from the result `rl` of reading the link.
FollowLink(F, f, rl) ==
    IF ~rl.ok THEN TargetErr(rl.err)
    ELSE TargetOf(rl.val, metadata(F, reorient_target_path(f, rl.val)))

\* File::link_target
link_target(F, f) == FollowLink(F, f, read_link(F, f.path))

IoCall(call, path, ok) == << [call |-> call, path |-> path, ok |-> ok] >>

StatCall(F, p) == IoCall("metadata", p, metadata(F, p).ok)

FollowLinkIo(F, f, rl) ==
    IoCall("read_link", f.path, rl.ok)
    \o (IF rl.ok THEN StatCall(F, reorient_target_path(f, rl.val)) ELSE << >>)

\* The filesystem calls File::link_target makes, in order.
LinkTargetIo(F, f) == FollowLinkIo(F, f, read_link(F, f.path))

\* FileTarget::is_broken
is_broken(t) == IF t.tag = "Ok" THEN FALSE ELSE TRUE

\* File::points_to_directory, with the number of link_target calls it made.
\* `cut` tells that the recursion was still going after MaxDepth calls.
PtdRun(result, resolves, cut) ==
    [result |-> result, resolves |-> resolves, cut |-> cut]

PtdAfter(r) == PtdRun(r.result, r.resolves + 1, r.cut)

RECURSIVE PointsToDirectoryRun(_, _, _)
RECURSIVE PointsToTarget(_, _, _)
PointsToDirectoryRun(F, f, depth) ==
    IF is_directory(f) THEN PtdRun(TRUE, 0, FALSE)
    ELSE IF is_link(f) THEN PointsToTarget(F, link_target(F, f), depth)
    ELSE PtdRun(FALSE, 0, FALSE)

\* The branch of points_to_directory on the FileTarget of the link.
PointsToTarget(F, t, depth) ==
    IF t.tag # "Ok" THEN PtdRun(FALSE, 1, FALSE)
    ELSE IF depth = 0 THEN PtdRun(FALSE, 1, TRUE)
    ELSE PtdAfter(PointsToDirectoryRun(F, t.file, depth - 1))

points_to_directory(F, f) == PointsToDirectoryRun(F, f, MaxDepth).result

\* f::Links of File::links
links(f) == [count |-> 0, multiple |-> is_file(f) /\ 0 > 1]

inode(f) == 0

user(f) == 0

group(f) == 0

\* File::blocks
blocks(f) ==
    IF is_file(f) \/ is_link(f) THEN [tag |-> "Some", val |-> 0]
    ELSE [tag |-> "None", val |-> 0]

\* File::size
size(f) ==
    IF is_directory(f) THEN [tag |-> "None", val |-> 0, major |-> 0, minor |-> 0]
    ELSE IF is_char_device(f) \/ is_block_device(f)
    THEN [tag |-> "DeviceIDs", val |-> 0, major |-> 0 \div 256, minor |-> 0 % 256]
    ELSE [tag |-> "Some", val |-> f.metadata.len, major |-> 0, minor |-> 0]

\* File::modified_time
modified_time(f) == nt_to_unix_epoch(f.metadata.creation_time)

ZeroTime == [seconds |-> [neg |-> FALSE, hi |-> 0, lo |-> 0], nanoseconds |-> 0]

\* File::created_time
created_time(f) == ZeroTime

\* File::accessed_time
accessed_time(f) == ZeroTime

\* File::type_char
type_char(f) ==
    IF is_file(f) THEN "File"
    ELSE IF is_directory(f) THEN "Directory"
    ELSE IF is_pipe(f) THEN "Pipe"
    ELSE IF is_link(f) THEN "Link"
    ELSE IF is_char_device(f) THEN "CharDevice"
    ELSE IF is_block_device(f) THEN "BlockDevice"
    ELSE IF is_socket(f) THEN "Socket"
    ELSE "Special"

\* File::permissions
permissions(f) ==
    [user_read  |-> TRUE, user_write  |-> TRUE, user_execute  |-> TRUE,
     group_read |-> TRUE, group_write |-> TRUE, group_execute |-> TRUE,
     other_read |-> TRUE, other_write |-> TRUE, other_execute |-> TRUE,
     sticky |-> FALSE, setgid |-> FALSE, setuid |-> FALSE]

\* <[&str]>::contains
Contains(choices, s) == \E i \in DOMAIN choices : choices[i] = s

\* File::extension_is_one_of
extension_is_one_of(f, choices) ==
    IF f.ext.some THEN Contains(choices, f.ext.val) ELSE FALSE

\* name_is_one_of answering false for a File without an extension.
name_is_one_of_needs_ext(f, choices) ==
    IF f.ext.some THEN Contains(choices, f.name) ELSE FALSE

\* File::name_is_one_of
name_is_one_of(f, choices) == Contains(choices, f.name)

\* ------------------------------------------------------------------------
\* Operations
\* ------------------------------------------------------------------------

PathABLink == << "/", "a", "/", "b", "/", "l", "i", "n", "k" >>

PathAB == << "/", "a", "/", "b" >>

PathABC == << "/", "a", "/", "b", "/", "c" >>

PathUpACD == << ".", ".", "/", "a", "/", "c", ".", "D" >>

NewArgs(path, parent_dir, fname) ==
    [path |-> path, parent_dir |-> parent_dir, filename |-> fname]

\* The calls of File::new the model makes: entries of a listed directory
\* (path = Dir::join(name), the Dir as parent, the name given), paths given
\* directly (no parent, no name), and calls with a name of the caller's own.
NewInputs ==
    { NewArgs(PathABLink, Some(Dir(PathAB)), Some(NameLink)),
      NewArgs(PathABLink, None, None),
      NewArgs(DirJoin(Dir(NameB), NameLink), Some(Dir(NameB)), Some(NameLink)),
      NewArgs(NameLink, None, None),
      NewArgs(PathABC, None, None),
      NewArgs(PathUpACD, None, None),
      NewArgs(<< "C", ":" >>, None, None),
      NewArgs(<< ".", "." >>, None, None),
      NewArgs(<< "/" >>, None, None),
      NewArgs(PathABC, None, Some(<< "M", "a", "k", "e", "f", "i", "l", "e" >>)),
      NewArgs(PathUpACD, None, Some(<< "r", ".", "T", "X", "T" >>)) }

NoArgs == NewArgs(<< >>, None, None)

\* The lists of choices given to extension_is_one_of and name_is_one_of.
ChoiceLists ==
    { << >>,
      << NameC, << "M", "a", "k", "e", "f", "i", "l", "e" >> >>,
      << << "c", ".", "d" >>, << "D" >> >>,
      << << "d" >>, NameCD >> }

PlainQueries ==
    { "is_directory", "is_file", "is_link", "points_to_directory",
      "is_executable_file", "type_char", "size", "blocks", "links",
      "modified_time", "created_time", "accessed_time", "permissions" }

TimeQueries == { "modified_time", "created_time", "accessed_time" }

ChoiceQueries == { "extension_is_one_of", "name_is_one_of" }

\* The value query q returns on File f, the filesystem being F.
Eval(F, f, q, arg) ==
    CASE q = "is_directory"        -> is_directory(f)
      [] q = "is_file"             -> is_file(f)
      [] q = "is_link"             -> is_link(f)
      [] q = "points_to_directory" -> points_to_directory(F, f)
      [] q = "is_executable_file"  -> is_executable_file(f)
      [] q = "type_char"           -> type_char(f)
      [] q = "size"                -> size(f)
      [] q = "blocks"              -> blocks(f)
      [] q = "links"               -> links(f)
      [] q = "modified_time"       -> modified_time(f)
      [] q = "created_time"        -> created_time(f)
      [] q = "accessed_time"       -> accessed_time(f)
      [] q = "permissions"         -> permissions(f)
      [] q = "extension_is_one_of" -> extension_is_one_of(f, arg)
      [] q = "name_is_one_of"      -> name_is_one_of(f, arg)

\* `stale`: the filesystem has changed since the result was recorded;
\* `again`: the call repeated the recorded query after such a change.
NoQuery ==
    [q |-> "none", arg |-> << >>, val |-> FALSE,
     resolves |-> 0, cut |-> FALSE, stale |-> FALSE, again |-> FALSE]

QueryRecord(q, arg, val, run, again) ==
    [q |-> q, arg |-> arg, val |-> val,
     resolves |-> run.resolves, cut |-> run.cut, stale |-> FALSE, again |-> again]

NoFileYet == IoErr("unset", NoFile)

FixedFs ==
    [l \in MutLocs |-> IF l = LocABLink THEN LinkNode(NameC) ELSE Absent]

\* File::new(path, parent_dir, filename)
New(a) ==
    /\ file' = new(fs, a.path, a.parent_dir, a.filename)
    /\ args' = a
    /\ io' = NewIo(fs, a.path)
    /\ op' = "new"
    /\ target' = NoTarget
    /\ query' = NoQuery
    /\ UNCHANGED << fs, pin, pout >>

\* file.link_target(), and is_broken() of the result
LinkTarget ==
    /\ file.ok
    /\ target' = link_target(fs, file.val)
    /\ io' = LinkTargetIo(fs, file.val)
    /\ op' = "link_target"
    /\ query' = QueryRecord("is_broken", << >>, is_broken(link_target(fs, file.val)),
                            PtdRun(FALSE, 0, FALSE), FALSE)
    /\ UNCHANGED << fs, args, file, pin, pout >>

\* One derived query on the File.
Query(q, arg) ==
    /\ file.ok
    /\ query' = QueryRecord(q, arg, Eval(fs, file.val, q, arg),
                            IF q = "points_to_directory"
                            THEN PointsToDirectoryRun(fs, file.val, MaxDepth)
                            ELSE PtdRun(FALSE, 0, FALSE),
                            query.q = q /\ query.arg = arg /\ query.stale)
    /\ op' = "query"
    /\ io' = << >>
    /\ target' = NoTarget
    /\ UNCHANGED << fs, args, file, pin, pout >>

\* The filesystem changes under the program.
Change(loc, node) ==
    /\ node \in NodesAt(loc)
    /\ fs' = [fs EXCEPT ![loc] = node]
    /\ op' = "fs"
    /\ io' = << >>
    /\ target' = NoTarget
    /\ query' = IF query.q = "none" THEN query ELSE [query EXCEPT !.stale = TRUE]
    /\ UNCHANGED << args, file, pin, pout >>

Create(loc, node) ==
    /\ fs[loc].kind = "absent" /\ node.kind # "absent"
    /\ Change(loc, node)

Delete(loc) ==
    /\ fs[loc].kind # "absent"
    /\ Change(loc, Absent)

Retype(loc, node) ==
    /\ fs[loc].kind \notin {"absent", node.kind} /\ node.kind # "absent"
    /\ Change(loc, node)

Repoint(loc, d) ==
    /\ fs[loc].kind = "symlink" /\ fs[loc].dest # d
    /\ Change(loc, LinkNode(d))

Init ==
    /\ fs \in FsStates
    /\ args = NoArgs
    /\ file = NoFileYet
    /\ op = "init"
    /\ io = << >>
    /\ target = NoTarget
    /\ query = NoQuery
    /\ pin = << >>
    /\ pout = [done |-> FALSE, filename |-> << >>, ext |-> None]

\* The program on a filesystem that stays as it is.
Next ==
    \/ \E a \in NewInputs : New(a)
    \/ LinkTarget
    \/ \E q \in PlainQueries : Query(q, << >>)
    \/ \E q \in ChoiceQueries, c \in ChoiceLists : Query(q, c)

Spec == Init /\ [][Next]_vars

\* ------------------------------------------------------------------------
\* The program on a filesystem that changes under it
\* ------------------------------------------------------------------------

\* The Files of this specification: an entry of the listed directory \a\b,
\* and two paths given directly.
LiveInputs ==
    { NewArgs(PathABLink, Some(Dir(PathAB)), Some(NameLink)),
      NewArgs(NameLink, None, None),
      NewArgs(PathABC, None, None) }

AllNodes == UNION {NodesAt(l) : l \in MutLocs}

AllDests == Dests \cup DestsOfALink

NextLive ==
    \/ \E a \in LiveInputs : New(a)
    \/ LinkTarget
    \/ \E q \in PlainQueries : Query(q, << >>)
    \/ \E l \in MutLocs, n \in AllNodes : Create(l, n)
    \/ \E l \in MutLocs : Delete(l)
    \/ \E l \in MutLocs, n \in AllNodes : Retype(l, n)
    \/ \E l \in MutLocs, d \in AllDests : Repoint(l, d)

SpecLive == Init /\ [][NextLive]_vars

\* ------------------------------------------------------------------------
\* The pure path functions on their own
\* ------------------------------------------------------------------------

PathChars == {"/", "\\", ".", ":", "a", "B"}

\* The paths of the unit tests and of the documentation.
TestPaths ==
    { << "f", "e", "s", "t", "e", "r", ".", "d", "a", "t" >>,
      << ".", "v", "i", "m", "r", "c" >>,
      << "j", "a", "r", "l", "s", "b", "e", "r", "g" >>,
      << "/", "v", "a", "r", "/", "c", "a", "c", "h", "e", "/", "f", "o", "o", ".", "w", "h", "a" >>,
      << "f", "o", "o", "." >>,
      << "A", ".", "T", "X", "T" >>,
      << ".", "g", "i", "t" >> }

\* Every string of at most MaxLen characters that does not start with two
\* separators (a UNC or verbatim prefix), and the test paths.
PathInputs ==
    { s \in UNION {[1..n -> PathChars] : n \in 0..MaxLen} :
        ~(Len(s) >= 2 /\ s[1] \in Sep /\ s[2] \in Sep) }
    \cup TestPaths

\* File::filename(pin) and File::ext(pin)
Parse ==
    /\ ~pout.done
    /\ pout' = [done |-> TRUE, filename |-> filename(pin), ext |-> ext(pin)]
    /\ UNCHANGED << fs, args, file, op, io, target, query, pin >>

InitPath ==
    /\ pin \in PathInputs
    /\ pout = [done |-> FALSE, filename |-> << >>, ext |-> None]
    /\ fs = FixedFs
    /\ args = NoArgs
    /\ file = NoFileYet
    /\ op = "init"
    /\ io = << >>
    /\ target = NoTarget
    /\ query = NoQuery

NextPath == Parse

SpecPath == InitPath /\ [][NextPath]_vars

\* ------------------------------------------------------------------------
\* The timestamps on their own
\* ------------------------------------------------------------------------

\* A File of a regular file whose metadata holds any two NT times.
TimedFile(ct, wt) ==
    [name       |-> NameC,
     ext        |-> None,
     path       |-> PathABC,
     parent_dir |-> None,
     metadata   |-> [file_type       |-> "file",
                     len             |-> FileSizeAt(LocABC),
                     creation_time   |-> ct,
                     last_write_time |-> wt]]

InitTime ==
    /\ \E ct \in NtInputs, wt \in NtInputs : file = IoOk(TimedFile(ct, wt))
    /\ fs = [FixedFs EXCEPT ![LocABC] = FileNode]
    /\ args = NewArgs(PathABC, None, None)
    /\ op = "new"
    /\ io = << >>
    /\ target = NoTarget
    /\ query = NoQuery
    /\ pin = << >>
    /\ pout = [done |-> FALSE, filename |-> << >>, ext |-> None]

NextTime == \E q \in TimeQueries : Query(q, << >>)

SpecTime == InitTime /\ [][NextTime]_vars

\* ------------------------------------------------------------------------
\* Properties
\* ------------------------------------------------------------------------

\* The raw destination of the File's link, as the filesystem holds it.
RawDest == read_link(fs, file.val.path)

\* The path the specification says is stat-ed for raw destination d: d when
\* absolute, else d joined to the parent directory context, else to the
\* directory of the File's path, else to the File's path.
ClaimReorient(f, d) ==
    IF IsAbsolute(d) THEN d
    ELSE IF f.parent_dir.some THEN join(f.parent_dir.val.path, d)
    ELSE IF parent(f.path).some THEN join(parent(f.path).val, d)
    ELSE join(f.path, d)

IsScenario ==
    /\ file.val.path = PathABLink
    /\ file.val.parent_dir = Some(Dir(PathAB))
    /\ RawDest = IoOk(NameC)

\* C1: whenever link_target reads the link, the second and last filesystem
\* call is a link-following stat of the reoriented path, chosen by strict
\* priority (destination if absolute, parent directory context, directory
\* of the File's path, the File's path); /a/b/link -> c listed from /a/b is
\* stat-ed at /a/b/c and not where the working directory would put c.
C1_ReorientPriority ==
    (op = "link_target" /\ RawDest.ok) =>
        /\ Len(io) = 2
        /\ io[1].call = "read_link" /\ io[1].path = file.val.path
        /\ io[2].call = "metadata"
        /\ io[2].path = ClaimReorient(file.val, RawDest.val)
        /\ IsScenario =>
              /\ Locate(io[2].path, Cwd) = LocABC
              /\ Locate(io[2].path, Cwd) # Locate(RawDest.val, Cwd)

C1_Witness ==
    /\ op = "link_target"
    /\ file.ok
    /\ IsScenario
    /\ Len(io) = 2
    /\ Locate(io[2].path, Cwd) = LocABC
    /\ target.tag = "Ok"

\* C2: link_target returns exactly one variant: Err with the read error
\* exactly when reading the link fails, Broken with the raw destination
\* exactly when the read succeeds and the stat of the reoriented path fails,
\* Ok otherwise; is_broken is true exactly for Err and Broken.
C2_Variants ==
    op = "link_target" =>
        /\ target.tag \in {"Ok", "Broken", "Err"}
        /\ (target.tag = "Err") = ~RawDest.ok
        /\ target.tag = "Err" => target.err = RawDest.err
        /\ (target.tag = "Broken")
              = (RawDest.ok /\ ~metadata(fs, ClaimReorient(file.val, RawDest.val)).ok)
        /\ target.tag = "Broken" => target.path = RawDest.val
        /\ (target.tag = "Ok")
              = (RawDest.ok /\ metadata(fs, ClaimReorient(file.val, RawDest.val)).ok)
        /\ query.q = "is_broken"
        /\ query.val = (target.tag \in {"Err", "Broken"})

C2_Witness ==
    /\ op = "link_target"
    /\ file.ok
    /\ file.val.parent_dir.some
    /\ target = TargetBroken(NameC)
    /\ query.q = "is_broken" /\ query.val = TRUE

\* C3: the File of a resolved target has the raw destination as its path,
\* name and extension derived from the raw destination, no parent directory,
\* and the metadata of a link-following stat of the reoriented destination,
\* which is never that of a link.
C3_ResolvedFile ==
    (op = "link_target" /\ target.tag = "Ok") =>
        /\ target.file.path = RawDest.val
        /\ target.file.name = filename(RawDest.val)
        /\ target.file.ext = ext(RawDest.val)
        /\ target.file.parent_dir = None
        /\ target.file.metadata
              = metadata(fs, ClaimReorient(file.val, RawDest.val)).val
        /\ target.file.metadata.file_type # "symlink"

C3_Witness ==
    /\ op = "link_target"
    /\ file.ok
    /\ file.val.parent_dir.some
    /\ target.tag = "Ok"
    /\ target.file.path = << ".", ".", "/", "c", ".", "D" >>
    /\ target.file.name = NameCD
    /\ target.file.ext = Some(<< "d" >>)
    /\ target.file.metadata.file_type = "file"

\* C4 (as claimed): new takes the name from the override or else from the
\* path, the extension from that name, makes exactly one non-following stat
\* of the path, and fails exactly when that stat fails.
C4_NewAsClaimed ==
    op = "new" =>
        /\ Len(io) = 1
        /\ io[1].call = "symlink_metadata" /\ io[1].path = args.path
        /\ file.ok = symlink_metadata(fs, args.path).ok
        /\ file.ok =>
              /\ file.val.name = IF args.filename.some THEN args.filename.val
                                 ELSE filename(args.path)
              /\ file.val.ext = ext(file.val.name)

DerivedQueries == PlainQueries

SameQueryAgain ==
    /\ query.q \in DerivedQueries
    /\ query'.q = query.q
    /\ query'.arg = query.arg
    /\ file' = file

\* C5 (as claimed): whatever happens to the filesystem, a derived query
\* repeated on the same File returns what it returned before.
C5_AllIdempotent == [][SameQueryAgain => query'.val = query.val]_vars

\* C5 (amended): the same, for every derived query but points_to_directory
\* on a File that is a link, which resolves the link at every call.
C5_Idempotent ==
    [][(SameQueryAgain /\ ~(query.q = "points_to_directory" /\ is_link(file.val)))
          => query'.val = query.val]_vars

C5_Witness ==
    /\ op = "query"
    /\ query.again
    /\ query.q = "is_directory"
    /\ query.val = FALSE
    /\ file.val.path = PathABC
    /\ fs[LocABC].kind = "dir"

\* The last component of a path as the path spells it.
RawLast(s) ==
    LET cs == Components(s)
        n  == Len(cs)
    IN SubSeq(s, cs[n].end - Len(cs[n].str) + 1, cs[n].end)

HasDot(s) == \E i \in DOMAIN s : s[i] = "."

\* The characters of s after its last dot.
AfterLastDot(s) ==
    LET k == CHOOSE i \in DOMAIN s : s[i] = "." /\ \A j \in (i + 1)..Len(s) : s[j] # "."
    IN SubSeq(s, k + 1, Len(s))

Lowered(s) == [i \in DOMAIN s |-> IF IsUpper(s[i]) THEN CharToAsciiLowercase(s[i]) ELSE s[i]]

\* The name of a path as the claim reads it: its last component.
ClaimName(s) == IF Components(s) = << >> THEN s ELSE Components(s)[Len(Components(s))].str

\* C6 (as claimed): the extension is the lowercased text after the last dot
\* of the path's last component, and None exactly when that component has
\* no dot.
C6_ExtOfLastComponent ==
    pout.done =>
        /\ pout.ext.some = HasDot(ClaimName(pin))
        /\ pout.ext.some => pout.ext.val = Lowered(AfterLastDot(ClaimName(pin)))

HasFileName(s) ==
    Components(s) # << >> /\ Components(s)[Len(Components(s))].kind = "Normal"

\* C6 (amended): the extension is the lowercased text after the last dot of
\* the path's file name, and None exactly when the path has no file name
\* (it is empty or ends in `.`, `..`, a root or a prefix) or the file name
\* has no dot; it never holds an uppercase letter or a dot.
C6_ExtOfFileName ==
    pout.done =>
        /\ pout.ext.some = (HasFileName(pin) /\ HasDot(ClaimName(pin)))
        /\ pout.ext.some =>
              /\ pout.ext.val = Lowered(AfterLastDot(ClaimName(pin)))
              /\ \A i \in DOMAIN pout.ext.val :
                    ~IsUpper(pout.ext.val[i]) /\ pout.ext.val[i] # "."
        /\ pin \in {<< "." >>, << ".", "." >>} => pout.ext = None
        /\ pin = << "f", "o", "o", "." >> => pout.ext = Some(<< >>)
        /\ pin = << "A", ".", "T", "X", "T" >> => pout.ext = Some(<< "t", "x", "t" >>)
        /\ pin = << "f", "e", "s", "t", "e", "r", ".", "d", "a", "t" >>
              => pout.ext = Some(<< "d", "a", "t" >>)
        /\ pin = << "j", "a", "r", "l", "s", "b", "e", "r", "g" >> => pout.ext = None

C6_Witness ==
    /\ pout.done
    /\ pin = << ".", "v", "i", "m", "r", "c" >>
    /\ pout.ext = Some(<< "v", "i", "m", "r", "c" >>)

\* C7 (as claimed): filename returns the last component of the path as the
\* path spells it (`/` for `/`, `.` for `.`, `..` for `..` and `./..`, the
\* file name when there is one), and the path itself when it has no
\* component.
C7_FilenameAsClaimed ==
    pout.done =>
        /\ Components(pin) # << >> => pout.filename = RawLast(pin)
        /\ Components(pin) = << >> => pout.filename = pin
        /\ pin = << "/" >> => pout.filename = << "/" >>

\* C8 (as claimed): on a File without an extension both membership tests
\* answer false.
C8_BothFalseWithoutExt ==
    (op = "query" /\ query.q \in ChoiceQueries /\ ~file.val.ext.some)
        => query.val = FALSE

\* C8 (amended): extension_is_one_of is true exactly when the File has an
\* extension that is literally among the choices, so never without one;
\* name_is_one_of is true exactly when the name is literally among the
\* choices, extension or not.
C8_Membership ==
    /\ (op = "query" /\ query.q = "extension_is_one_of") =>
          /\ query.val = (file.val.ext.some
                            /\ \E i \in DOMAIN query.arg : query.arg[i] = file.val.ext.val)
          /\ ~file.val.ext.some => query.val = FALSE
    /\ (op = "query" /\ query.q = "name_is_one_of") =>
          query.val = (\E i \in DOMAIN query.arg : query.arg[i] = file.val.name)

C8_Witness ==
    /\ op = "query"
    /\ query.q = "name_is_one_of"
    /\ ~file.val.ext.some
    /\ file.val.name = << "M", "a", "k", "e", "f", "i", "l", "e" >>
    /\ query.val = TRUE

\* The Unix time of NT time t, t read as the unsigned number it is.
ClaimUnixTime(t) ==
    [seconds |->
        IF SecLess([hi |-> t.hi, lo |-> t.lo], EpochOffset)
        THEN Signed(TRUE, SecMinus(EpochOffset, [hi |-> t.hi, lo |-> t.lo]))
        ELSE Signed(FALSE, SecMinus([hi |-> t.hi, lo |-> t.lo], EpochOffset)),
     nanoseconds |-> t.ticks * 100]

\* C9 (as claimed): modified_time is the Unix time of the last-write time of
\* the cached metadata, with nanoseconds from 0 up to 10^9.
C9_ModifiedAsClaimed ==
    (op = "query" /\ query.q = "modified_time") =>
        /\ query.val = ClaimUnixTime(file.val.metadata.last_write_time)
        /\ query.val.nanoseconds >= 0
        /\ query.val.nanoseconds < 100 * TicksPerSecond

\* C10: points_to_directory ends after at most one link_target call: it is
\* true exactly when the File is a directory, or is a link whose target is
\* resolved to a directory; the resolved File is never a link.
C10_PointsToDirectory ==
    (op = "query" /\ query.q = "points_to_directory") =>
        /\ ~query.cut
        /\ query.resolves <= 1
        /\ query.resolves = 1 => file.val.metadata.file_type = "symlink"
        /\ query.val =
              \/ file.val.metadata.file_type = "dir"
              \/ /\ file.val.metadata.file_type = "symlink"
                 /\ link_target(fs, file.val).tag = "Ok"
                 /\ link_target(fs, file.val).file.metadata.file_type = "dir"
        /\ link_target(fs, file.val).tag = "Ok"
              => link_target(fs, file.val).file.metadata.file_type # "symlink"

C10_Witness ==
    /\ op = "query"
    /\ query.q = "points_to_directory"
    /\ file.val.path = NameLink
    /\ fs[LocALink] = LinkNode(<< "b", "/", "l", "i", "n", "k" >>)
    /\ fs[LocABLink] = LinkNode(NameC)
    /\ query.resolves = 1
    /\ query.val = TRUE

====
